---- MODULE Spec2Model ----
(***************************************************************************)
(* Loop Box financial calculation engine (src/calculations.py).            *)
(*                                                                         *)
(* The engine is a set of pure functions over four assumption dicts        *)
(* (pricing, volume, cogs, opex).  Python numbers are modelled as exact    *)
(* rationals [n, d] in lowest terms (d > 0), extended with the IEEE        *)
(* specials float('inf') = [1, 0], -inf = [-1, 0] and nan = [0, 0].        *)
(* A ZeroDivisionError raised by "/" is the marker [0, -1]; every          *)
(* arithmetic operator passes the marker on, and a function whose body     *)
(* evaluated a marker ends in the exception instead of returning a dict.   *)
(* Rounding of binary floating point is not modelled.                      *)
(***************************************************************************)
EXTENDS Integers, Sequences, FiniteSets, TLC

VARIABLES pricing, volume, cogs, opex,
          income_statement, unit_economics, breakeven, sensitivity, chart_data,
          year3_total_orders

vars == <<pricing, volume, cogs, opex,
          income_statement, unit_economics, breakeven, sensitivity, chart_data,
          year3_total_orders>>

bundle == <<pricing, volume, cogs, opex>>

----------------------------------------------------------------------------
(* Python numbers                                                          *)

RECURSIVE GCD(_, _)
GCD(a, b) == IF b = 0 THEN a ELSE GCD(b, a % b)

Abs(i) == IF i < 0 THEN -i ELSE i

Sign(i) == IF i < 0 THEN -1 ELSE IF i > 0 THEN 1 ELSE 0

\* the rational n/d (d > 0) in lowest terms
Frac(n, d) == LET g == GCD(Abs(n), d) IN [n |-> n \div g, d |-> d \div g]

Num(i) == [n |-> i, d |-> 1]

Inf == [n |-> 1, d |-> 0]

NegInf == [n |-> -1, d |-> 0]

NaN == [n |-> 0, d |-> 0]

\* the pending ZeroDivisionError of a "/" whose divisor is zero
DivZero == [n |-> 0, d |-> -1]

Raised(x) == x.d = -1

IsNaN(x) == x.d = 0 /\ x.n = 0

IsInf(x) == x.d = 0 /\ x.n # 0

IsFinite(x) == x.d > 0

IsZero(x) == x.d > 0 /\ x.n = 0

Neg(a) == IF Raised(a) THEN a ELSE [n |-> -(a.n), d |-> a.d]

Add(a, b) ==
    IF Raised(a) THEN a
    ELSE IF Raised(b) THEN b
    ELSE IF IsNaN(a) \/ IsNaN(b) THEN NaN
    ELSE IF IsInf(a) THEN (IF IsInf(b) /\ b.n # a.n THEN NaN ELSE a)
    ELSE IF IsInf(b) THEN b
    ELSE LET g == GCD(a.d, b.d)
         IN  Frac(a.n * (b.d \div g) + b.n * (a.d \div g), (a.d \div g) * b.d)

Sub(a, b) == Add(a, Neg(b))

Mul(a, b) ==
    IF Raised(a) THEN a
    ELSE IF Raised(b) THEN b
    ELSE IF IsNaN(a) \/ IsNaN(b) THEN NaN
    ELSE IF IsInf(a) \/ IsInf(b)
         THEN [n |-> Sign(a.n) * Sign(b.n), d |-> 0]
    ELSE LET g1 == GCD(Abs(a.n), b.d)
             g2 == GCD(Abs(b.n), a.d)
         IN  [n |-> (a.n \div g1) * (b.n \div g2),
              d |-> (a.d \div g2) * (b.d \div g1)]

\* Python "/": a zero divisor raises ZeroDivisionError, for ints and floats
Div(a, b) ==
    IF Raised(a) THEN a
    ELSE IF Raised(b) THEN b
    ELSE IF IsZero(b) THEN DivZero
    ELSE IF IsNaN(a) \/ IsNaN(b) THEN NaN
    ELSE IF IsInf(b) THEN (IF IsInf(a) THEN NaN ELSE Num(0))
    ELSE IF IsInf(a) THEN [n |-> Sign(a.n) * Sign(b.n), d |-> 0]
    ELSE Mul(a, [n |-> Sign(b.n) * b.d, d |-> Abs(b.n)])

\* Python ">": false on nan.  Two rationals are compared by their integer parts
\* and then by their fractional parts, which keeps the products small.
Gt(a, b) ==
    IF Raised(a) \/ Raised(b) \/ IsNaN(a) \/ IsNaN(b) THEN FALSE
    ELSE IF IsInf(a) THEN a.n > 0 /\ ~(IsInf(b) /\ b.n > 0)
    ELSE IF IsInf(b) THEN b.n < 0
    ELSE \/ a.n \div a.d > b.n \div b.d
         \/ /\ a.n \div a.d = b.n \div b.d
            /\ (a.n % a.d) * b.d > (b.n % b.d) * a.d

Lt(a, b) == Gt(b, a)

\* mutant: the sign kept, abs() left out
PyAbs_Signed(a) == a

\* Python abs()
PyAbs(a) == IF Raised(a) THEN a ELSE [n |-> Abs(a.n), d |-> a.d]

\* Python max(a, b): b only if b > a
PyMax(a, b) == IF Gt(b, a) THEN b ELSE a

\* Python int() of a finite non-negative number: truncation
PyInt(a) == a.n \div a.d

Zero == Num(0)

----------------------------------------------------------------------------
(* Outcomes of a call                                                      *)

\* a result that has not been computed
None == [none |-> TRUE]

\* the exception that leaves a function instead of a dict
ZeroDivisionError == [exception |-> "ZeroDivisionError"]

IsNone(r) == "none" \in DOMAIN r

IsException(r) == "exception" \in DOMAIN r

Returned(r) == ~IsNone(r) /\ ~IsException(r)

\* Python evaluates an expression once and binds its value to a local name: Body is
\* the rest of the function, which reads the name
Bind(value, Body(_)) == CHOOSE r \in { Body(x) : x \in {value} } : TRUE

\* a dict of numbers is returned only if no "/" in the body raised
Return(dict) ==
    Bind(dict, LAMBDA d :
        IF \E k \in DOMAIN d : Raised(d[k]) THEN ZeroDivisionError ELSE d)

----------------------------------------------------------------------------
(* calculations.py                                                         *)

\* mutant: orders_per_day left out of the product
TotalOrders_IgnoresOrdersPerDay(v) == Mul(v.restaurants, v.operating_days)

\* mutant: aggregator orders counted as orders
TotalOrders_WithAggregator(v) ==
    Add(Mul(Mul(v.restaurants, v.orders_per_day), v.operating_days),
        Mul(v.zomato_orders_per_day, v.zomato_operating_days))

\* line 9
TotalOrders(v) == Mul(Mul(v.restaurants, v.orders_per_day), v.operating_days)

\* mutant: the setup fees left out of the total
TotalRevenue_NoSetup(usage_revenue, subscription_revenue, setup_revenue, shrinkage_revenue, aggregator_revenue) ==
    Add(Add(Add(usage_revenue, subscription_revenue), shrinkage_revenue),
        aggregator_revenue)

\* mutant: the aggregator stream left out of the total
TotalRevenue_NoAggregator(usage_revenue, subscription_revenue, setup_revenue, shrinkage_revenue, aggregator_revenue) ==
    Add(Add(Add(usage_revenue, subscription_revenue), setup_revenue),
        shrinkage_revenue)

\* lines 29-30
TotalRevenue(usage_revenue, subscription_revenue, setup_revenue, shrinkage_revenue, aggregator_revenue) ==
    Add(Add(Add(Add(usage_revenue, subscription_revenue), setup_revenue),
            shrinkage_revenue), aggregator_revenue)

calculate_revenue(p, v) ==
    LET total_orders == TotalOrders(v)
        usage_revenue == Mul(total_orders, p.per_use_fee)
        subscription_revenue ==
            Mul(Mul(v.restaurants, p.monthly_fee), Div(v.operating_days, Num(30)))
        setup_revenue == Mul(v.new_restaurants, p.setup_fee)
        shrinkage_revenue == Mul(Mul(total_orders, p.deposit), v.shrinkage)
        aggregator_revenue ==
            Mul(Mul(Mul(v.zomato_orders_per_day, v.zomato_operating_days),
                    p.green_fee), p.revenue_share_pct)
        total_revenue ==
            TotalRevenue(usage_revenue, subscription_revenue, setup_revenue,
                         shrinkage_revenue, aggregator_revenue)
    IN  Return([total_orders |-> total_orders,
                usage_revenue |-> usage_revenue,
                subscription_revenue |-> subscription_revenue,
                setup_revenue |-> setup_revenue,
                shrinkage_revenue |-> shrinkage_revenue,
                aggregator_revenue |-> aggregator_revenue,
                total_revenue |-> total_revenue])

\* mutant: a zero lifespan swallowed instead of raising
AmortizationPerOrder_ZeroGuard(c) ==
    IF IsZero(c.container_lifespan) THEN Zero
    ELSE Div(c.container_cost, c.container_lifespan)

\* line 47
AmortizationPerOrder(c) == Div(c.container_cost, c.container_lifespan)

\* mutant: every order washed, collected or not
Washing_AllOrders(c, v, total_orders) == Mul(total_orders, c.wash_cost)

\* line 51
Washing(c, v, total_orders) == Mul(Mul(total_orders, v.collection_rate), c.wash_cost)

calculate_cogs(c, v, total_orders) ==
    LET amortization_per_order == AmortizationPerOrder(c)
        amortization == Mul(total_orders, amortization_per_order)
        washing == Washing(c, v, total_orders)
        collection == Mul(total_orders, c.collection_cost)
        qc == Mul(Mul(c.qc_batch_cost, c.batches_per_month),
                  Div(v.operating_days, Num(30)))
        total_cogs == Add(Add(Add(amortization, washing), collection), qc)
    IN  Return([amortization |-> amortization,
                washing |-> washing,
                collection |-> collection,
                qc |-> qc,
                total_cogs |-> total_cogs,
                amortization_per_order |-> amortization_per_order])

\* mutant: the facility costs of one month, not of the months operated
calculate_opex_OneMonth(o, v) ==
    LET sales_salaries == Mul(o.num_sales_people, o.avg_salary)
        facility_costs ==
            Add(Add(Mul(o.num_hubs, o.rent_per_hub),
                    Mul(o.num_hubs, o.utilities_per_hub)),
                Mul(Mul(o.num_hubs, o.workers_per_hub), o.worker_salary))
    IN  Return([technology |-> o.technology,
                marketing |-> o.marketing,
                sales_salaries |-> sales_salaries,
                ga |-> o.ga,
                facility_costs |-> facility_costs,
                total_opex |->
                    Add(Add(Add(Add(o.technology, o.marketing), sales_salaries),
                            o.ga), facility_costs)])

calculate_opex(o, v) ==
    LET sales_salaries == Mul(o.num_sales_people, o.avg_salary)
        months_operating == Div(v.operating_days, Num(30))
        facility_rent == Mul(Mul(o.num_hubs, o.rent_per_hub), months_operating)
        facility_utilities ==
            Mul(Mul(o.num_hubs, o.utilities_per_hub), months_operating)
        facility_labor ==
            Mul(Mul(Mul(o.num_hubs, o.workers_per_hub), o.worker_salary),
                months_operating)
        facility_costs == Add(Add(facility_rent, facility_utilities), facility_labor)
        total_opex ==
            Add(Add(Add(Add(o.technology, o.marketing), sales_salaries), o.ga),
                facility_costs)
    IN  Return([technology |-> o.technology,
                marketing |-> o.marketing,
                sales_salaries |-> sales_salaries,
                ga |-> o.ga,
                facility_costs |-> facility_costs,
                total_opex |-> total_opex])

\* mutant: the scale boundary taken as "restaurants <= 2000"
calculate_other_items_InclusiveBoundary(v, restaurants) ==
    IF Lt(v.operating_days, Num(365))
    THEN [depreciation |-> Num(-2500000), interest |-> Num(250000)]
    ELSE IF ~Gt(restaurants, Num(2000))
    THEN [depreciation |-> Num(-6000000), interest |-> Num(500000)]
    ELSE [depreciation |-> Num(-14500000), interest |-> Num(1500000)]

calculate_other_items(v, restaurants) ==
    LET depreciation ==
            IF Lt(v.operating_days, Num(365)) THEN Num(-2500000)
            ELSE IF Lt(restaurants, Num(2000)) THEN Num(-6000000)
            ELSE Num(-14500000)
        interest ==
            IF Lt(v.operating_days, Num(365)) THEN Num(250000)
            ELSE IF Lt(restaurants, Num(2000)) THEN Num(500000)
            ELSE Num(1500000)
    IN  [depreciation |-> depreciation, interest |-> interest]

\* mutant: the 0-fallback left out
Margin_Unguarded(x, total_revenue) == Mul(Div(x, total_revenue), Num(100))

\* "x / total_revenue * 100 if total_revenue > 0 else 0"
Margin(x, total_revenue) ==
    IF Gt(total_revenue, Zero) THEN Mul(Div(x, total_revenue), Num(100)) ELSE Zero

\* mutant: interest left out
NetIncome_NoInterest(ebitda, other) == Add(ebitda, other.depreciation)

\* line 148
NetIncome(ebitda, other) == Add(Add(ebitda, other.depreciation), other.interest)

calculate_full_income_statement(p, v, c, o) ==
    Bind(calculate_revenue(p, v), LAMBDA revenue :
    IF IsException(revenue) THEN revenue ELSE
    Bind(calculate_cogs(c, v, revenue.total_orders), LAMBDA cogs_calc :
    IF IsException(cogs_calc) THEN cogs_calc ELSE
    Bind(Sub(revenue.total_revenue, cogs_calc.total_cogs), LAMBDA gross_profit :
    Bind(calculate_opex(o, v), LAMBDA opex_calc :
    IF IsException(opex_calc) THEN opex_calc ELSE
    Bind(Sub(gross_profit, opex_calc.total_opex), LAMBDA ebitda :
    Bind(calculate_other_items(v, v.restaurants), LAMBDA other :
    Bind(NetIncome(ebitda, other), LAMBDA net_income :
    Bind([gross_margin |-> Margin(gross_profit, revenue.total_revenue),
          ebitda_margin |-> Margin(ebitda, revenue.total_revenue),
          net_margin |-> Margin(net_income, revenue.total_revenue)], LAMBDA margins :
    IF \E k \in DOMAIN margins : Raised(margins[k]) THEN ZeroDivisionError
    ELSE [revenue |-> revenue,
          cogs |-> cogs_calc,
          gross_profit |-> gross_profit,
          gross_margin |-> margins.gross_margin,
          opex |-> opex_calc,
          ebitda |-> ebitda,
          ebitda_margin |-> margins.ebitda_margin,
          other |-> other,
          net_income |-> net_income,
          net_margin |-> margins.net_margin]))))))))

\* mutant: the divisions made without the "if total_orders > 0" guard
calculate_unit_economics_Unguarded(is) ==
    LET total_orders == is.revenue.total_orders
        revenue_per_order == Div(is.revenue.total_revenue, total_orders)
        cogs_per_order == Div(is.cogs.total_cogs, total_orders)
    IN  Return([revenue_per_order |-> revenue_per_order,
                cogs_per_order |-> cogs_per_order,
                gross_profit_per_order |-> Sub(revenue_per_order, cogs_per_order),
                opex_per_order |-> Div(is.opex.total_opex, total_orders)])

calculate_unit_economics(is) ==
    LET total_orders == is.revenue.total_orders
        total_revenue == is.revenue.total_revenue
        total_cogs == is.cogs.total_cogs
        total_opex == is.opex.total_opex
        revenue_per_order ==
            IF Gt(total_orders, Zero) THEN Div(total_revenue, total_orders) ELSE Zero
        cogs_per_order ==
            IF Gt(total_orders, Zero) THEN Div(total_cogs, total_orders) ELSE Zero
        gross_profit_per_order == Sub(revenue_per_order, cogs_per_order)
        opex_per_order ==
            IF Gt(total_orders, Zero) THEN Div(total_opex, total_orders) ELSE Zero
    IN  Return([revenue_per_order |-> revenue_per_order,
                cogs_per_order |-> cogs_per_order,
                gross_profit_per_order |-> gross_profit_per_order,
                opex_per_order |-> opex_per_order])

\* mutant: deposit * shrinkage added outside the "orders > 0" branch
RevenuePerOrder_DepositAlways(p, v) ==
    LET total_orders_estimate ==
            Mul(Mul(v.restaurants, v.orders_per_day), v.operating_days)
        allocated_fees ==
            IF Gt(v.orders_per_day, Zero) /\ Gt(v.operating_days, Zero)
               /\ Gt(total_orders_estimate, Zero)
            THEN Add(Div(Mul(Mul(v.restaurants, p.monthly_fee),
                             Div(v.operating_days, Num(30))), total_orders_estimate),
                     Div(Mul(v.new_restaurants, p.setup_fee), total_orders_estimate))
            ELSE Zero
        aggregator_orders == Mul(v.zomato_orders_per_day, v.zomato_operating_days)
        aggregator_share ==
            IF Gt(v.zomato_orders_per_day, Zero) /\ Gt(v.zomato_operating_days, Zero)
            THEN Div(Mul(Mul(aggregator_orders, p.green_fee), p.revenue_share_pct),
                     Add(total_orders_estimate, aggregator_orders))
            ELSE Zero
    IN  Add(Add(Add(p.per_use_fee, allocated_fees), Mul(p.deposit, v.shrinkage)),
            aggregator_share)

\* lines 224-246: per_use_fee, plus the allocated fees, plus the aggregator share
RevenuePerOrder(p, v) ==
    LET total_orders_estimate ==
            Mul(Mul(v.restaurants, v.orders_per_day), v.operating_days)
        monthly_fee_per_order ==
            Div(Mul(Mul(v.restaurants, p.monthly_fee), Div(v.operating_days, Num(30))),
                total_orders_estimate)
        setup_fee_per_order ==
            Div(Mul(v.new_restaurants, p.setup_fee), total_orders_estimate)
        deposit_per_order == Mul(p.deposit, v.shrinkage)
        with_fees ==
            IF Gt(v.orders_per_day, Zero) /\ Gt(v.operating_days, Zero)
               /\ Gt(total_orders_estimate, Zero)
            THEN Add(p.per_use_fee,
                     Add(Add(monthly_fee_per_order, setup_fee_per_order),
                         deposit_per_order))
            ELSE p.per_use_fee
        total_orders_with_aggregator ==
            Add(Mul(Mul(v.restaurants, v.orders_per_day), v.operating_days),
                Mul(v.zomato_orders_per_day, v.zomato_operating_days))
        aggregator_revenue_total ==
            Mul(Mul(Mul(v.zomato_orders_per_day, v.zomato_operating_days),
                    p.green_fee), p.revenue_share_pct)
    IN  IF Gt(v.zomato_orders_per_day, Zero) /\ Gt(v.zomato_operating_days, Zero)
           /\ Gt(total_orders_with_aggregator, Zero)
        THEN Add(with_fees, Div(aggregator_revenue_total, total_orders_with_aggregator))
        ELSE with_fees

\* mutant: the margin guard left out
BreakevenOrders_Unguarded(fixed_costs_annual, contribution_margin_per_order) ==
    Div(fixed_costs_annual, contribution_margin_per_order)

\* mutant: the guard tests "!= 0" instead of "> 0"
BreakevenOrders_NonZeroGuard(fixed_costs_annual, contribution_margin_per_order) ==
    IF ~IsZero(contribution_margin_per_order)
    THEN Div(fixed_costs_annual, contribution_margin_per_order)
    ELSE Inf

\* mutant: the fixed costs multiplied by the margin instead of divided
BreakevenOrders_Multiplied(fixed_costs_annual, contribution_margin_per_order) ==
    IF Gt(contribution_margin_per_order, Zero)
    THEN Mul(fixed_costs_annual, contribution_margin_per_order)
    ELSE Inf

\* lines 251-255
BreakevenOrders(fixed_costs_annual, contribution_margin_per_order) ==
    IF Gt(contribution_margin_per_order, Zero)
    THEN Div(fixed_costs_annual, contribution_margin_per_order)
    ELSE Inf

\* mutant: the break-even orders divided by the orders of all restaurants
BreakevenRestaurants_PerTotalOrders(v, breakeven_orders) ==
    IF Gt(v.orders_per_day, Zero) /\ Gt(v.operating_days, Zero)
    THEN Div(breakeven_orders,
             Mul(Mul(v.restaurants, v.orders_per_day), v.operating_days))
    ELSE Inf

\* lines 257-262
BreakevenRestaurants(v, breakeven_orders) ==
    IF Gt(v.orders_per_day, Zero) /\ Gt(v.operating_days, Zero)
    THEN LET orders_per_restaurant_annual == Mul(v.orders_per_day, v.operating_days)
         IN  IF Gt(orders_per_restaurant_annual, Zero)
             THEN Div(breakeven_orders, orders_per_restaurant_annual)
             ELSE Inf
    ELSE Inf

\* mutant: the share of the year's orders left as years, not multiplied by 12
MonthsToBreakeven_InYears(v, breakeven_orders, contribution_margin_per_order) ==
    IF Gt(v.orders_per_day, Zero) /\ Gt(v.restaurants, Zero)
       /\ Gt(Mul(Mul(v.restaurants, v.orders_per_day), v.operating_days), Zero)
       /\ Gt(contribution_margin_per_order, Zero)
    THEN Div(breakeven_orders,
             Mul(Mul(v.restaurants, v.orders_per_day), v.operating_days))
    ELSE Inf

\* lines 264-279
MonthsToBreakeven(v, breakeven_orders, contribution_margin_per_order) ==
    IF Gt(v.orders_per_day, Zero) /\ Gt(v.restaurants, Zero)
    THEN LET year1_total_orders ==
                 Mul(Mul(v.restaurants, v.orders_per_day), v.operating_days)
         IN  IF Gt(year1_total_orders, Zero) /\ Gt(contribution_margin_per_order, Zero)
             THEN Mul(Div(breakeven_orders, year1_total_orders), Num(12))
             ELSE Inf
    ELSE Inf

\* mutant: the QC cost of a day counted as a variable cost
VariableCostPerOrder_WithQc(c, v) ==
    Add(Add(Add(Div(c.container_cost, c.container_lifespan),
                Mul(c.wash_cost, v.collection_rate)),
            c.collection_cost),
        Div(Mul(c.qc_batch_cost, c.batches_per_month), Num(30)))

\* lines 213-220
VariableCostPerOrder(c, v) ==
    LET amortization_per_order == Div(c.container_cost, c.container_lifespan)
        wash_cost_per_order == Mul(c.wash_cost, v.collection_rate)
        collection_cost_per_order == c.collection_cost
    IN  Add(Add(amortization_per_order, wash_cost_per_order),
            collection_cost_per_order)

calculate_breakeven(p, v, c, o) ==
    Bind(calculate_opex(o, v), LAMBDA opex_calc :
    IF IsException(opex_calc) THEN opex_calc ELSE
    Bind(calculate_other_items(v, v.restaurants), LAMBDA other :
    Bind(Add(opex_calc.total_opex, PyAbs(other.depreciation)), LAMBDA fixed_costs_annual :
    Bind(VariableCostPerOrder(c, v), LAMBDA variable_cost_per_order :
    IF Raised(variable_cost_per_order) THEN ZeroDivisionError ELSE
    Bind(RevenuePerOrder(p, v), LAMBDA revenue_per_order :
    Bind(Sub(revenue_per_order, variable_cost_per_order), LAMBDA contribution_margin_per_order :
    Bind(BreakevenOrders(fixed_costs_annual, contribution_margin_per_order), LAMBDA breakeven_orders :
    Return([fixed_costs_annual |-> fixed_costs_annual,
            variable_cost_per_order |-> variable_cost_per_order,
            revenue_per_order |-> revenue_per_order,
            contribution_margin_per_order |-> contribution_margin_per_order,
            breakeven_orders |-> breakeven_orders,
            breakeven_restaurants |-> BreakevenRestaurants(v, breakeven_orders),
            months_to_breakeven |->
                MonthsToBreakeven(v, breakeven_orders,
                                  contribution_margin_per_order)]))))))))

\* mutant: the rate raised by 0.10 instead of lowered
CollectionRateDrop_Raised(v) ==
    [v EXCEPT !.collection_rate = PyMax(Frac(1, 2), Add(v.collection_rate, Frac(1, 10)))]

\* mutant: the drop applied without the floor of 0.5
CollectionRateDrop_NoFloor(v) ==
    [v EXCEPT !.collection_rate = Sub(v.collection_rate, Frac(1, 10))]

\* the four perturbed copies of lines 298-316
CollectionRateDrop(v) ==
    [v EXCEPT !.collection_rate = PyMax(Frac(1, 2), Sub(v.collection_rate, Frac(1, 10)))]

WashCostIncrease(c) == [c EXCEPT !.wash_cost = Mul(c.wash_cost, Frac(6, 5))]

PerUseFeeIncrease(p) == [p EXCEPT !.per_use_fee = Add(p.per_use_fee, Frac(1, 2))]

OrdersPerDayDrop(v) == [v EXCEPT !.orders_per_day = Num(40)]

\* mutant: the base case computed on the volume the last scenario wrote
calculate_sensitivity_analysis_BaseOnLastScenario(p, v, c, o) ==
    Bind(calculate_breakeven(p, OrdersPerDayDrop(v), c, o), LAMBDA s4_breakeven :
    IF IsException(s4_breakeven) THEN s4_breakeven
    ELSE [base |-> s4_breakeven,
          collection_rate_drop |-> calculate_breakeven(p, CollectionRateDrop(v), c, o),
          wash_cost_increase |-> calculate_breakeven(p, v, WashCostIncrease(c), o),
          per_use_fee_increase |-> calculate_breakeven(PerUseFeeIncrease(p), v, c, o),
          orders_per_day_drop |-> s4_breakeven])

calculate_sensitivity_analysis(p, v, c, o) ==
    Bind(calculate_breakeven(p, v, c, o), LAMBDA base_breakeven :
    IF IsException(base_breakeven) THEN base_breakeven ELSE
    Bind(calculate_breakeven(p, CollectionRateDrop(v), c, o), LAMBDA s1_breakeven :
    IF IsException(s1_breakeven) THEN s1_breakeven ELSE
    Bind(calculate_breakeven(p, v, WashCostIncrease(c), o), LAMBDA s2_breakeven :
    IF IsException(s2_breakeven) THEN s2_breakeven ELSE
    Bind(calculate_breakeven(PerUseFeeIncrease(p), v, c, o), LAMBDA s3_breakeven :
    IF IsException(s3_breakeven) THEN s3_breakeven ELSE
    Bind(calculate_breakeven(p, OrdersPerDayDrop(v), c, o), LAMBDA s4_breakeven :
    IF IsException(s4_breakeven) THEN s4_breakeven
    ELSE [base |-> base_breakeven,
          collection_rate_drop |-> s1_breakeven,
          wash_cost_increase |-> s2_breakeven,
          per_use_fee_increase |-> s3_breakeven,
          orders_per_day_drop |-> s4_breakeven])))))

\* mutant: the last scenario written into the caller's own volume dict
CallerDictsAfterSensitivity_LastScenarioInPlace(p, v, c, o) ==
    <<p, OrdersPerDayDrop(v), c, o>>

\* mutant: the scenarios written into the caller's own dicts, no copy made
CallerDictsAfterSensitivity_NoCopy(p, v, c, o) ==
    <<PerUseFeeIncrease(p), OrdersPerDayDrop(CollectionRateDrop(v)),
      WashCostIncrease(c), o>>

\* lines 299-315: each scenario is written into a .copy() of its dict, so the four
\* dicts of the caller hold after the call what they held before it
CallerDictsAfterSensitivity(p, v, c, o) == <<p, v, c, o>>

\* line 334
order_steps == 20

\* mutant: range(order_steps), one point short
OrdersRange_TwentyPoints(year3_orders) ==
    LET max_orders == PyInt(Mul(year3_orders, Frac(3, 2)))
        step_size == max_orders \div order_steps
    IN  [i \in 1..order_steps |-> (i - 1) * step_size]

\* lines 333-337
OrdersRange(year3_orders) ==
    LET max_orders == PyInt(Mul(year3_orders, Frac(3, 2)))
        step_size == max_orders \div order_steps
    IN  [i \in 1..(order_steps + 1) |-> (i - 1) * step_size]

\* mutant: the chart's fixed costs taken with the sign of the depreciation
generate_breakeven_chart_data_SignedDepreciation(p, v, c, o, year3_orders) ==
    Bind(calculate_breakeven(p, v, c, o), LAMBDA be :
    IF IsException(be) THEN be ELSE
    Bind(OrdersRange(year3_orders), LAMBDA orders_range :
    Bind(Add(calculate_opex(o, v).total_opex,
             calculate_other_items(v, v.restaurants).depreciation), LAMBDA fixed_costs :
    [orders_range |-> orders_range,
     revenue_line |-> [i \in DOMAIN orders_range |->
                          Mul(Num(orders_range[i]), be.revenue_per_order)],
     cost_line |-> [i \in DOMAIN orders_range |->
                       Add(fixed_costs,
                           Mul(Num(orders_range[i]), be.variable_cost_per_order))],
     breakeven_point |-> be.breakeven_orders])))

\* mutant: the cost line drawn without the fixed costs
generate_breakeven_chart_data_VariableCostOnly(p, v, c, o, year3_orders) ==
    Bind(calculate_breakeven(p, v, c, o), LAMBDA be :
    IF IsException(be) THEN be ELSE
    Bind(OrdersRange(year3_orders), LAMBDA orders_range :
    [orders_range |-> orders_range,
     revenue_line |-> [i \in DOMAIN orders_range |->
                          Mul(Num(orders_range[i]), be.revenue_per_order)],
     cost_line |-> [i \in DOMAIN orders_range |->
                       Mul(Num(orders_range[i]), be.variable_cost_per_order)],
     breakeven_point |-> be.breakeven_orders]))

generate_breakeven_chart_data(p, v, c, o, year3_orders) ==
    Bind(calculate_breakeven(p, v, c, o), LAMBDA be :
    IF IsException(be) THEN be ELSE
    Bind(OrdersRange(year3_orders), LAMBDA orders_range :
    Bind(calculate_opex(o, v), LAMBDA opex_calc :
    IF IsException(opex_calc) THEN opex_calc ELSE
    Bind(calculate_other_items(v, v.restaurants), LAMBDA other :
    Bind(Add(opex_calc.total_opex, PyAbs(other.depreciation)), LAMBDA fixed_costs :
    Bind([i \in DOMAIN orders_range |->
              Mul(Num(orders_range[i]), be.revenue_per_order)], LAMBDA revenue_line :
    Bind([i \in DOMAIN orders_range |->
              Add(fixed_costs, Mul(Num(orders_range[i]), be.variable_cost_per_order))],
         LAMBDA cost_line :
    IF \E i \in DOMAIN orders_range : Raised(revenue_line[i]) \/ Raised(cost_line[i])
    THEN ZeroDivisionError
    ELSE [orders_range |-> orders_range,
          revenue_line |-> revenue_line,
          cost_line |-> cost_line,
          breakeven_point |-> be.breakeven_orders])))))))

----------------------------------------------------------------------------
(* Assumption bundles supplied by the caller                               *)

Pricing(container_price, monthly_fee, setup_fee, per_use_fee, deposit, incentive, green_fee, revenue_share_pct) ==
    [container_price |-> container_price, monthly_fee |-> monthly_fee,
     setup_fee |-> setup_fee, per_use_fee |-> per_use_fee, deposit |-> deposit,
     incentive |-> incentive, green_fee |-> green_fee,
     revenue_share_pct |-> revenue_share_pct]

Volume(restaurants, new_restaurants, orders_per_day, operating_days, collection_rate, shrinkage) ==
    [restaurants |-> restaurants, new_restaurants |-> new_restaurants,
     orders_per_day |-> orders_per_day, operating_days |-> operating_days,
     collection_rate |-> collection_rate, shrinkage |-> shrinkage,
     zomato_orders_per_day |-> Zero, zomato_operating_days |-> Zero]

Cogs(container_cost, container_lifespan, wash_cost, collection_cost, qc_batch_cost, batches_per_month) ==
    [container_cost |-> container_cost, container_lifespan |-> container_lifespan,
     wash_cost |-> wash_cost, collection_cost |-> collection_cost,
     qc_batch_cost |-> qc_batch_cost, batches_per_month |-> batches_per_month]

Opex(technology, marketing, ga, num_sales_people, avg_salary, num_hubs, rent_per_hub, utilities_per_hub, workers_per_hub, worker_salary) ==
    [technology |-> technology, marketing |-> marketing, ga |-> ga,
     num_sales_people |-> num_sales_people, avg_salary |-> avg_salary,
     num_hubs |-> num_hubs, rent_per_hub |-> rent_per_hub,
     utilities_per_hub |-> utilities_per_hub, workers_per_hub |-> workers_per_hub,
     worker_salary |-> worker_salary]

PricingValues ==
    { Pricing(Zero, Zero, Zero, Zero, Zero, Zero, Zero, Zero),
      Pricing(Zero, Zero, Zero, Num(2), Zero, Zero, Zero, Zero),
      Pricing(Num(150), Num(1500), Zero, Num(2), Num(20), Num(5), Num(6), Frac(1, 2)),
      Pricing(Num(150), Num(3000), Num(60000), Num(6), Num(20), Num(5), Num(6),
              Frac(1, 2)) }

\* the restaurant channel of the volume assumptions
RestaurantVolumes ==
    { Volume(Num(1), Zero, Zero, Num(300), Frac(9, 10), Frac(1, 20)),
      Volume(Num(1), Num(1), Num(50), Num(300), Frac(9, 10), Frac(1, 20)),
      Volume(Num(1), Num(1), Num(50), Num(300), Frac(2, 5), Frac(1, 20)),
      Volume(Num(1), Num(1), Num(50), Zero, Frac(9, 10), Frac(1, 20)),
      Volume(Num(500), Num(100), Num(50), Num(300), Frac(9, 10), Frac(1, 20)),
      Volume(Num(1999), Zero, Num(50), Num(365), Frac(9, 10), Frac(1, 20)),
      Volume(Num(2000), Zero, Num(50), Num(365), Frac(9, 10), Frac(1, 20)) }

\* the aggregator channel of v: absent, active, or with orders but no operating days
AggregatorVariants(v) ==
    { [v EXCEPT !.zomato_orders_per_day = Zero, !.zomato_operating_days = Zero],
      [v EXCEPT !.zomato_orders_per_day = Mul(Num(10), v.restaurants),
                !.zomato_operating_days = v.operating_days],
      [v EXCEPT !.zomato_orders_per_day = Mul(Num(10), v.restaurants),
                !.zomato_operating_days = Zero] }

VolumeValues == UNION { AggregatorVariants(v) : v \in RestaurantVolumes }

CogsValues ==
    { Cogs(Num(100), Num(200), Num(1), Num(1), Num(5000), Num(4)),
      Cogs(Num(100), Num(200), Num(1), Num(1), Zero, Zero),
      Cogs(Num(100), Num(100), Zero, Num(1), Zero, Zero),
      Cogs(Num(100), Zero, Num(1), Num(1), Num(5000), Num(4)) }

OpexValues ==
    { Opex(Zero, Zero, Zero, Zero, Zero, Zero, Zero, Zero, Zero, Zero),
      Opex(Num(500000), Num(300000), Num(200000), Num(2), Num(600000), Num(1),
           Num(50000), Num(10000), Num(4), Num(15000)) }

\* the small reference order count handed to the chart
SmallReferenceOrders == 30

\* reference order counts handed to the chart: the year's own total (app.py line 834)
\* and a small one
ReferenceOrders(v) ==
    { Num(SmallReferenceOrders),
      Mul(Mul(v.restaurants, v.orders_per_day), v.operating_days) }

----------------------------------------------------------------------------
(* The caller: one bundle, and each core operation applied to it once, in  *)
(* any order (app.py lines 412-421, 756, 782-788, 835-841, 888-893)        *)

Init ==
    /\ pricing \in PricingValues
    /\ volume \in VolumeValues
    /\ cogs \in CogsValues
    /\ opex \in OpexValues
    /\ income_statement = None
    /\ unit_economics = None
    /\ breakeven = None
    /\ sensitivity = None
    /\ chart_data = None
    /\ year3_total_orders = None

ComputeIncomeStatement ==
    /\ IsNone(income_statement)
    /\ income_statement' = calculate_full_income_statement(pricing, volume, cogs, opex)
    /\ UNCHANGED <<bundle, unit_economics, breakeven, sensitivity, chart_data,
                   year3_total_orders>>

ComputeUnitEconomics ==
    /\ IsNone(unit_economics)
    /\ Returned(income_statement)
    /\ unit_economics' = calculate_unit_economics(income_statement)
    /\ UNCHANGED <<bundle, income_statement, breakeven, sensitivity, chart_data,
                   year3_total_orders>>

ComputeBreakeven ==
    /\ IsNone(breakeven)
    /\ breakeven' = calculate_breakeven(pricing, volume, cogs, opex)
    /\ UNCHANGED <<bundle, income_statement, unit_economics, sensitivity, chart_data,
                   year3_total_orders>>

ComputeSensitivity ==
    /\ IsNone(sensitivity)
    /\ sensitivity' = calculate_sensitivity_analysis(pricing, volume, cogs, opex)
    /\ \E after \in {CallerDictsAfterSensitivity(pricing, volume, cogs, opex)} :
           /\ pricing' = after[1]
           /\ volume' = after[2]
           /\ cogs' = after[3]
           /\ opex' = after[4]
    /\ UNCHANGED <<income_statement, unit_economics, breakeven, chart_data,
                   year3_total_orders>>

ComputeChartData ==
    /\ IsNone(chart_data)
    /\ year3_total_orders' \in ReferenceOrders(volume)
    /\ chart_data' =
           generate_breakeven_chart_data(pricing, volume, cogs, opex,
                                         year3_total_orders')
    /\ UNCHANGED <<bundle, income_statement, unit_economics, breakeven, sensitivity>>

Next ==
    \/ ComputeIncomeStatement
    \/ ComputeUnitEconomics
    \/ ComputeBreakeven
    \/ ComputeSensitivity
    \/ ComputeChartData

Spec == Init /\ [][Next]_vars

----------------------------------------------------------------------------
(* Properties                                                              *)

\* a bundle the data model allows: no negative field, the fractions within [0, 1],
\* at least one restaurant
NonNegative(dict) == \A k \in DOMAIN dict : IsFinite(dict[k]) /\ dict[k].n >= 0

InUnit(x) == IsFinite(x) /\ x.n >= 0 /\ x.n <= x.d

ValidBundle ==
    /\ NonNegative(pricing) /\ NonNegative(volume)
    /\ NonNegative(cogs) /\ NonNegative(opex)
    /\ InUnit(pricing.revenue_share_pct)
    /\ InUnit(volume.collection_rate) /\ InUnit(volume.shrinkage)
    /\ volume.restaurants.n >= 1

LifespanPositive == Gt(cogs.container_lifespan, Zero)

FiniteDict(dict) == \A k \in DOMAIN dict : IsFinite(dict[k])

FiniteOrInf(x) == IsFinite(x) \/ x = Inf

\* C1: whenever the income statement of a valid bundle with container_lifespan > 0
\* has been computed, it was returned and gross_profit = total_revenue - total_cogs,
\* ebitda = gross_profit - total_opex, net_income = ebitda + depreciation + interest,
\* with depreciation <= 0.
C1_IncomeIdentities ==
    (ValidBundle /\ LifespanPositive /\ ~IsNone(income_statement)) =>
        /\ Returned(income_statement)
        /\ LET is == income_statement
           IN  /\ is.gross_profit = Sub(is.revenue.total_revenue, is.cogs.total_cogs)
               /\ is.ebitda = Sub(is.gross_profit, is.opex.total_opex)
               /\ is.net_income =
                      Add(Add(is.ebitda, is.other.depreciation), is.other.interest)
               /\ ~Gt(is.other.depreciation, Zero)

C1_Witness ==
    /\ ValidBundle /\ LifespanPositive /\ Returned(income_statement)
    /\ Gt(income_statement.revenue.total_revenue, Zero)
    /\ Gt(income_statement.cogs.total_cogs, Zero)
    /\ Gt(income_statement.opex.total_opex, Zero)
    /\ Gt(income_statement.net_income, Zero)

\* C2: in a returned income statement every breakdown's total is the sum of its
\* listed components (revenue: five streams; COGS: four; OpEx: five).
C2_TotalsAreSums ==
    Returned(income_statement) =>
        LET r == income_statement.revenue
            c == income_statement.cogs
            o == income_statement.opex
        IN  /\ r.total_revenue =
                   Add(Add(Add(Add(r.usage_revenue, r.subscription_revenue),
                               r.setup_revenue), r.shrinkage_revenue),
                       r.aggregator_revenue)
            /\ c.total_cogs =
                   Add(Add(Add(c.amortization, c.washing), c.collection), c.qc)
            /\ o.total_opex =
                   Add(Add(Add(Add(o.technology, o.marketing), o.sales_salaries),
                           o.ga), o.facility_costs)

C2_Witness ==
    /\ ValidBundle /\ Returned(income_statement)
    /\ LET r == income_statement.revenue
           c == income_statement.cogs
           o == income_statement.opex
       IN  /\ \A x \in {r.usage_revenue, r.subscription_revenue, r.setup_revenue,
                        r.shrinkage_revenue, r.aggregator_revenue} : Gt(x, Zero)
           /\ \A x \in {c.amortization, c.washing, c.collection, c.qc} : Gt(x, Zero)
           /\ \A x \in {o.technology, o.marketing, o.sales_salaries, o.ga,
                        o.facility_costs} : Gt(x, Zero)

\* the margin the data model defines: numerator / total_revenue * 100, and 0 when
\* total_revenue = 0
MarginOf(numerator, total_revenue) ==
    IF IsZero(total_revenue) THEN Zero
    ELSE Mul(Div(numerator, total_revenue), Num(100))

\* C3: for a valid bundle with container_lifespan > 0 the income statement is
\* returned (no margin raises) and each of gross_margin, ebitda_margin, net_margin
\* is its numerator / total_revenue * 100 when total_revenue is non-zero and
\* exactly 0 when total_revenue = 0.
C3_Margins ==
    (ValidBundle /\ LifespanPositive /\ ~IsNone(income_statement)) =>
        /\ Returned(income_statement)
        /\ LET is == income_statement
               total_revenue == is.revenue.total_revenue
           IN  /\ is.gross_margin = MarginOf(is.gross_profit, total_revenue)
               /\ is.ebitda_margin = MarginOf(is.ebitda, total_revenue)
               /\ is.net_margin = MarginOf(is.net_income, total_revenue)

\* total_revenue = 0 with non-zero numerators: the 0-fallback decided the margins
C3_Witness ==
    /\ ValidBundle /\ LifespanPositive /\ Returned(income_statement)
    /\ IsZero(income_statement.revenue.total_revenue)
    /\ ~IsZero(income_statement.gross_profit)
    /\ ~IsZero(income_statement.ebitda)
    /\ ~IsZero(income_statement.net_income)
    /\ IsZero(income_statement.gross_margin)

ZeroOrderCase ==
    /\ ValidBundle /\ LifespanPositive
    /\ volume.restaurants = Num(1) /\ IsZero(volume.orders_per_day)
    /\ ~IsNone(income_statement)

AllMarginsZero ==
    /\ IsZero(income_statement.gross_margin)
    /\ IsZero(income_statement.ebitda_margin)
    /\ IsZero(income_statement.net_margin)

\* C4 as stated: with restaurants = 1 and orders_per_day = 0 the income statement
\* is returned with total_orders = 0, usage_revenue = 0 and all three margins 0.
C4_ZeroOrdersAsStated ==
    ZeroOrderCase =>
        /\ Returned(income_statement)
        /\ IsZero(income_statement.revenue.total_orders)
        /\ IsZero(income_statement.revenue.usage_revenue)
        /\ AllMarginsZero

\* C4 (amended): with restaurants = 1 and orders_per_day = 0 the income statement
\* is returned with total_orders = 0 and usage_revenue = 0; the three margins are
\* all 0 if total_revenue = 0, i.e. if the streams that do not depend on orders
\* (subscription, setup, aggregator) are all 0, and are finite otherwise.
C4_ZeroOrders ==
    ZeroOrderCase =>
        /\ Returned(income_statement)
        /\ IsZero(income_statement.revenue.total_orders)
        /\ IsZero(income_statement.revenue.usage_revenue)
        /\ IsZero(income_statement.revenue.shrinkage_revenue)
        /\ IsFinite(income_statement.gross_margin)
        /\ IsFinite(income_statement.ebitda_margin)
        /\ IsFinite(income_statement.net_margin)
        /\ (IsZero(income_statement.revenue.total_revenue) <=>
                /\ IsZero(income_statement.revenue.subscription_revenue)
                /\ IsZero(income_statement.revenue.setup_revenue)
                /\ IsZero(income_statement.revenue.aggregator_revenue))
        /\ (IsZero(income_statement.revenue.total_revenue) => AllMarginsZero)

C4_Witness ==
    /\ ZeroOrderCase /\ Returned(income_statement)
    /\ IsZero(income_statement.revenue.total_revenue)
    /\ ~IsZero(income_statement.net_income)
    /\ AllMarginsZero

\* C5: with container_lifespan = 0 the COGS Calculator raises the division error
\* whatever total_orders is, and the income statement, break-even, sensitivity and
\* chart calls each end in that error: none of them returns a result.
C5_LifespanZeroRaises ==
    IsZero(cogs.container_lifespan) =>
        /\ \A t \in {Zero, Num(SmallReferenceOrders), TotalOrders(volume)} :
               calculate_cogs(cogs, volume, t) = ZeroDivisionError
        /\ IsNone(income_statement) \/ income_statement = ZeroDivisionError
        /\ IsNone(breakeven) \/ breakeven = ZeroDivisionError
        /\ IsNone(sensitivity) \/ sensitivity = ZeroDivisionError
        /\ IsNone(chart_data) \/ chart_data = ZeroDivisionError

C5_Witness ==
    /\ IsZero(cogs.container_lifespan)
    /\ IsZero(TotalOrders(volume))
    /\ IsException(income_statement)
    /\ IsException(breakeven)
    /\ IsException(sensitivity)
    /\ IsException(chart_data)

FiniteIncomeStatement(is) ==
    /\ FiniteDict(is.revenue) /\ FiniteDict(is.cogs)
    /\ FiniteDict(is.opex) /\ FiniteDict(is.other)
    /\ IsFinite(is.gross_profit) /\ IsFinite(is.gross_margin)
    /\ IsFinite(is.ebitda) /\ IsFinite(is.ebitda_margin)
    /\ IsFinite(is.net_income) /\ IsFinite(is.net_margin)

FiniteBreakeven(be) ==
    /\ IsFinite(be.fixed_costs_annual) /\ IsFinite(be.variable_cost_per_order)
    /\ IsFinite(be.revenue_per_order) /\ IsFinite(be.contribution_margin_per_order)
    /\ FiniteOrInf(be.breakeven_orders)
    /\ FiniteOrInf(be.breakeven_restaurants)
    /\ FiniteOrInf(be.months_to_breakeven)

FiniteChart(ch) ==
    /\ \A i \in DOMAIN ch.orders_range : ch.orders_range[i] \in Int
    /\ \A i \in DOMAIN ch.revenue_line : IsFinite(ch.revenue_line[i])
    /\ \A i \in DOMAIN ch.cost_line : IsFinite(ch.cost_line[i])
    /\ FiniteOrInf(ch.breakeven_point)

\* C6: for a valid bundle with container_lifespan > 0 every core operation that
\* has been called returned, and each numeric output is finite, except that
\* breakeven_orders, breakeven_restaurants, months_to_breakeven and the chart's
\* breakeven_point may be +infinity; none is NaN or -infinity.
C6_ReturnsFinite ==
    (ValidBundle /\ LifespanPositive) =>
        /\ ~IsNone(income_statement) =>
               Returned(income_statement) /\ FiniteIncomeStatement(income_statement)
        /\ ~IsNone(unit_economics) =>
               Returned(unit_economics) /\ FiniteDict(unit_economics)
        /\ ~IsNone(breakeven) => Returned(breakeven) /\ FiniteBreakeven(breakeven)
        /\ ~IsNone(sensitivity) =>
               /\ Returned(sensitivity)
               /\ \A k \in DOMAIN sensitivity : FiniteBreakeven(sensitivity[k])
        /\ ~IsNone(chart_data) => Returned(chart_data) /\ FiniteChart(chart_data)

\* all five operations returned, on a bundle whose margin is exactly 0 and whose
\* income statement has no revenue and no orders
C6_Witness ==
    /\ ValidBundle /\ LifespanPositive
    /\ Returned(income_statement) /\ Returned(unit_economics)
    /\ Returned(breakeven) /\ Returned(sensitivity) /\ Returned(chart_data)
    /\ IsZero(breakeven.contribution_margin_per_order)
    /\ breakeven.breakeven_orders = Inf
    /\ chart_data.breakeven_point = Inf
    /\ IsFinite(sensitivity.per_use_fee_increase.breakeven_orders)

\* C7: for a valid bundle (container_lifespan > 0) calculate_breakeven returns, and
\* whenever contribution_margin_per_order <= 0 its breakeven_orders,
\* breakeven_restaurants and months_to_breakeven are all +infinity.
C7_SentinelOnNonPositiveMargin ==
    (ValidBundle /\ LifespanPositive /\ ~IsNone(breakeven)) =>
        /\ Returned(breakeven)
        /\ ~Gt(breakeven.contribution_margin_per_order, Zero) =>
               /\ breakeven.breakeven_orders = Inf
               /\ breakeven.breakeven_restaurants = Inf
               /\ breakeven.months_to_breakeven = Inf

\* a negative margin on a bundle with orders: the sentinel went through the
\* division by orders_per_day * operating_days
C7_Witness ==
    /\ ValidBundle /\ Returned(breakeven)
    /\ Lt(breakeven.contribution_margin_per_order, Zero)
    /\ Gt(TotalOrders(volume), Zero)
    /\ breakeven.breakeven_orders = Inf
    /\ breakeven.breakeven_restaurants = Inf
    /\ breakeven.months_to_breakeven = Inf

\* the break-even results of the bundles that share the caller's volume and opex
\* assumptions (and so its fixed costs) and differ in pricing or COGS
SameFixedCostBreakevens ==
    { calculate_breakeven(p, volume, c, opex) :
          p \in PricingValues, c \in { x \in CogsValues : Gt(x.container_lifespan, Zero) } }

\* C8: when contribution_margin_per_order > 0, breakeven_orders =
\* fixed_costs_annual / contribution_margin_per_order, and a bundle with the same
\* fixed_costs_annual and a larger positive margin has a strictly smaller
\* breakeven_orders.
C8_BreakevenOrdersDecreasing ==
    (Returned(breakeven) /\ Gt(breakeven.contribution_margin_per_order, Zero)) =>
        /\ breakeven.breakeven_orders =
               Div(breakeven.fixed_costs_annual, breakeven.contribution_margin_per_order)
        /\ \A other \in SameFixedCostBreakevens :
               ( /\ other.fixed_costs_annual = breakeven.fixed_costs_annual
                 /\ Gt(other.contribution_margin_per_order,
                       breakeven.contribution_margin_per_order) )
               => Lt(other.breakeven_orders, breakeven.breakeven_orders)

C8_Witness ==
    /\ Returned(breakeven) /\ Gt(breakeven.contribution_margin_per_order, Zero)
    /\ IsFinite(breakeven.breakeven_orders)
    /\ \E other \in SameFixedCostBreakevens :
           /\ other.fixed_costs_annual = breakeven.fixed_costs_annual
           /\ Gt(other.contribution_margin_per_order,
                 breakeven.contribution_margin_per_order)
           /\ Lt(other.breakeven_orders, breakeven.breakeven_orders)

\* C9: the revenue breakdown is total_orders = restaurants * orders_per_day *
\* operating_days, usage = total_orders * per_use_fee, subscription = restaurants *
\* monthly_fee * operating_days/30, setup = new_restaurants * setup_fee, shrinkage =
\* total_orders * deposit * shrinkage, aggregator = zomato_orders_per_day *
\* zomato_operating_days * green_fee * revenue_share_pct; and a bundle that differs
\* only in the two zomato fields has the same total_orders, the same other four
\* streams and the same COGS breakdown: only aggregator_revenue and total_revenue
\* move, and total_revenue moves by the aggregator difference.
C9_RevenueStreams ==
    Returned(income_statement) =>
        LET r == income_statement.revenue
            T == Mul(Mul(volume.restaurants, volume.orders_per_day),
                     volume.operating_days)
        IN  /\ r.total_orders = T
            /\ r.usage_revenue = Mul(T, pricing.per_use_fee)
            /\ r.subscription_revenue =
                   Mul(Mul(volume.restaurants, pricing.monthly_fee),
                       Div(volume.operating_days, Num(30)))
            /\ r.setup_revenue = Mul(volume.new_restaurants, pricing.setup_fee)
            /\ r.shrinkage_revenue = Mul(Mul(T, pricing.deposit), volume.shrinkage)
            /\ r.aggregator_revenue =
                   Mul(Mul(Mul(volume.zomato_orders_per_day,
                               volume.zomato_operating_days),
                           pricing.green_fee), pricing.revenue_share_pct)
            /\ \A v2 \in AggregatorVariants(volume) :
                   LET is2 == calculate_full_income_statement(pricing, v2, cogs, opex)
                       r2 == is2.revenue
                   IN  /\ Returned(is2)
                       /\ r2.total_orders = r.total_orders
                       /\ r2.usage_revenue = r.usage_revenue
                       /\ r2.subscription_revenue = r.subscription_revenue
                       /\ r2.setup_revenue = r.setup_revenue
                       /\ r2.shrinkage_revenue = r.shrinkage_revenue
                       /\ is2.cogs = income_statement.cogs
                       /\ Sub(r2.total_revenue, r2.aggregator_revenue) =
                              Sub(r.total_revenue, r.aggregator_revenue)

\* an active aggregator channel beside a restaurant channel with orders
C9_Witness ==
    /\ Returned(income_statement)
    /\ Gt(income_statement.revenue.total_orders, Zero)
    /\ Gt(income_statement.revenue.aggregator_revenue, Zero)
    /\ \E v2 \in AggregatorVariants(volume) :
           calculate_revenue(pricing, v2).total_revenue #
               income_statement.revenue.total_revenue

\* C10: the COGS breakdown is amortization = total_orders * container_cost /
\* container_lifespan, washing = total_orders * collection_rate * wash_cost,
\* collection = total_orders * collection_cost, qc = qc_batch_cost *
\* batches_per_month * operating_days/30 whatever total_orders is; with
\* total_orders = 0, total_cogs is qc alone.
C10_CogsBreakdown ==
    Returned(income_statement) =>
        LET c == income_statement.cogs
            T == income_statement.revenue.total_orders
            qc == Mul(Mul(cogs.qc_batch_cost, cogs.batches_per_month),
                      Div(volume.operating_days, Num(30)))
        IN  /\ c.amortization =
                   Mul(T, Div(cogs.container_cost, cogs.container_lifespan))
            /\ c.washing = Mul(Mul(T, volume.collection_rate), cogs.wash_cost)
            /\ c.collection = Mul(T, cogs.collection_cost)
            /\ c.qc = qc
            /\ \A t \in {Zero, Num(SmallReferenceOrders)} :
                   calculate_cogs(cogs, volume, t).qc = qc
            /\ calculate_cogs(cogs, volume, Zero).total_cogs = qc
            /\ IsZero(T) => c.total_cogs = qc

\* orders of which only a part is collected and washed, beside a QC cost
C10_Witness ==
    /\ Returned(income_statement)
    /\ Gt(income_statement.revenue.total_orders, Zero)
    /\ Gt(income_statement.cogs.washing, Zero)
    /\ Lt(income_statement.cogs.washing,
          Mul(income_statement.revenue.total_orders, cogs.wash_cost))
    /\ Gt(income_statement.cogs.qc, Zero)
    /\ Gt(income_statement.cogs.total_cogs, income_statement.cogs.qc)

\* restaurant counts on both sides of the scale boundary
RestaurantCounts == {Num(1), Num(500), Num(1999), Num(2000), Num(2001), Num(50000)}

StartupTier == [depreciation |-> Num(-2500000), interest |-> Num(250000)]

MidScaleTier == [depreciation |-> Num(-6000000), interest |-> Num(500000)]

FullScaleTier == [depreciation |-> Num(-14500000), interest |-> Num(1500000)]

\* the tier the priority order selects
TierOf(operating_days, restaurants) ==
    IF operating_days.n < 365 * operating_days.d THEN StartupTier
    ELSE IF restaurants.n < 2000 * restaurants.d THEN MidScaleTier
    ELSE FullScaleTier

\* C11: the other items of a returned income statement are the pair of the tier
\* selected in priority order (operating_days < 365: (-2,500,000, 250,000) whatever
\* restaurants is; else restaurants < 2000: (-6,000,000, 500,000); else
\* (-14,500,000, 1,500,000)); depreciation and interest come from the same tier; and
\* at operating_days = 365 the calculator gives -6,000,000 for 1999 restaurants and
\* -14,500,000 for 2000.
C11_OtherItemsTiers ==
    /\ Returned(income_statement) =>
           income_statement.other = TierOf(volume.operating_days, volume.restaurants)
    /\ \A r \in RestaurantCounts :
           /\ calculate_other_items(volume, r) = TierOf(volume.operating_days, r)
           /\ calculate_other_items(volume, r) \in
                  {StartupTier, MidScaleTier, FullScaleTier}
           /\ Lt(volume.operating_days, Num(365)) =>
                  calculate_other_items(volume, r) = StartupTier
    /\ volume.operating_days = Num(365) =>
           /\ calculate_other_items(volume, Num(1999)).depreciation = Num(-6000000)
           /\ calculate_other_items(volume, Num(2000)).depreciation = Num(-14500000)

\* a full year with exactly 2000 restaurants: the full-scale tier, one restaurant
\* above the mid-scale one
C11_Witness ==
    /\ Returned(income_statement)
    /\ volume.operating_days = Num(365) /\ volume.restaurants = Num(2000)
    /\ income_statement.other = FullScaleTier
    /\ calculate_other_items(volume, Num(1999)) = MidScaleTier

\* C12: the unit economics of a returned income statement are returned, never
\* raised; with total_orders > 0 they are total_revenue, total_cogs, gross_profit
\* and total_opex each divided by total_orders, and with total_orders = 0 all four
\* are 0 whatever the totals are.
C12_UnitEconomics ==
    ~IsNone(unit_economics) =>
        /\ Returned(unit_economics)
        /\ DOMAIN unit_economics =
               {"revenue_per_order", "cogs_per_order", "gross_profit_per_order",
                "opex_per_order"}
        /\ LET is == income_statement
               T == is.revenue.total_orders
           IN  IF Gt(T, Zero)
               THEN /\ unit_economics.revenue_per_order =
                           Div(is.revenue.total_revenue, T)
                    /\ unit_economics.cogs_per_order = Div(is.cogs.total_cogs, T)
                    /\ unit_economics.gross_profit_per_order = Div(is.gross_profit, T)
                    /\ unit_economics.opex_per_order = Div(is.opex.total_opex, T)
               ELSE /\ IsZero(T)
                    /\ \A k \in DOMAIN unit_economics : unit_economics[k] = Zero

\* no orders, yet revenue, COGS and OpEx that are not zero
C12_Witness ==
    /\ Returned(unit_economics)
    /\ IsZero(income_statement.revenue.total_orders)
    /\ Gt(income_statement.revenue.total_revenue, Zero)
    /\ Gt(income_statement.cogs.total_cogs, Zero)
    /\ Gt(income_statement.opex.total_opex, Zero)
    /\ unit_economics.revenue_per_order = Zero
    /\ unit_economics.gross_profit_per_order = Zero

\* the COGS assumptions that differ from c in the QC fields only
QcVariants(c) ==
    { [c EXCEPT !.qc_batch_cost = q, !.batches_per_month = b] :
          q \in {Zero, Num(5000), Num(9000)}, b \in {Zero, Num(4)} }

QcPerMonth(c) == Mul(c.qc_batch_cost, c.batches_per_month)

HasOrders ==
    /\ Gt(volume.orders_per_day, Zero) /\ Gt(volume.operating_days, Zero)
    /\ Gt(Mul(Mul(volume.restaurants, volume.orders_per_day), volume.operating_days),
          Zero)

\* the aggregator channel is active
AggregatorActive ==
    Gt(volume.zomato_orders_per_day, Zero) /\ Gt(volume.zomato_operating_days, Zero)

\* what the restaurant channel adds to per_use_fee when it has orders
FeesPerOrder ==
    LET T == Mul(Mul(volume.restaurants, volume.orders_per_day), volume.operating_days)
    IN  Add(Add(Div(Mul(Mul(volume.restaurants, pricing.monthly_fee),
                        Div(volume.operating_days, Num(30))), T),
                Div(Mul(volume.new_restaurants, pricing.setup_fee), T)),
            Mul(pricing.deposit, volume.shrinkage))

\* what an active aggregator channel adds
AggregatorPerOrder ==
    LET T == Mul(Mul(volume.restaurants, volume.orders_per_day), volume.operating_days)
        A == Mul(volume.zomato_orders_per_day, volume.zomato_operating_days)
    IN  Div(Mul(Mul(A, pricing.green_fee), pricing.revenue_share_pct), Add(T, A))

\* C14: in a returned break-even result revenue_per_order is per_use_fee, plus
\* (restaurants * monthly_fee * operating_days/30)/T + (new_restaurants *
\* setup_fee)/T + deposit * shrinkage exactly when orders_per_day > 0,
\* operating_days > 0 and T = restaurants * orders_per_day * operating_days > 0,
\* plus aggregator_revenue / (T + zomato_orders_per_day * zomato_operating_days)
\* exactly when zomato_orders_per_day > 0 and zomato_operating_days > 0; and
\* contribution_margin_per_order = revenue_per_order - variable_cost_per_order.
C14_RevenuePerOrder ==
    Returned(breakeven) =>
        /\ breakeven.revenue_per_order =
               Add(Add(pricing.per_use_fee, IF HasOrders THEN FeesPerOrder ELSE Zero),
                   IF AggregatorActive THEN AggregatorPerOrder ELSE Zero)
        /\ breakeven.contribution_margin_per_order =
               Sub(breakeven.revenue_per_order, breakeven.variable_cost_per_order)

\* both channels active and every added term positive
C14_Witness ==
    /\ Returned(breakeven) /\ HasOrders /\ AggregatorActive
    /\ Gt(pricing.per_use_fee, Zero) /\ Gt(pricing.monthly_fee, Zero)
    /\ Gt(Mul(volume.new_restaurants, pricing.setup_fee), Zero)
    /\ Gt(Mul(pricing.deposit, volume.shrinkage), Zero)
    /\ Gt(AggregatorPerOrder, Zero)
    /\ Gt(breakeven.revenue_per_order, Add(pricing.per_use_fee, FeesPerOrder))

\* collection_rate - 0.10, and 0.5 where that is lower
LoweredCollectionRate(collection_rate) ==
    IF Gt(Sub(collection_rate, Frac(1, 10)), Frac(1, 2))
    THEN Sub(collection_rate, Frac(1, 10))
    ELSE Frac(1, 2)

CollectionRates == {Zero, Frac(2, 5), Frac(1, 2), Frac(11, 20), Frac(3, 5), Frac(9, 10), Num(1)}

\* C15: a returned sensitivity analysis has exactly the entries base,
\* collection_rate_drop, wash_cost_increase, per_use_fee_increase and
\* orders_per_day_drop, each the break-even result of the base bundle with one
\* field changed: none; collection_rate = max(0.5, collection_rate - 0.10);
\* wash_cost * 1.20; per_use_fee + 0.50; orders_per_day = 40.  Every scenario
\* starts from the base bundle, and the collection rate of the second is never
\* below 0.5 whatever the base rate is.
C15_SensitivityScenarios ==
    Returned(sensitivity) =>
        /\ DOMAIN sensitivity =
               {"base", "collection_rate_drop", "wash_cost_increase",
                "per_use_fee_increase", "orders_per_day_drop"}
        /\ sensitivity.base = calculate_breakeven(pricing, volume, cogs, opex)
        /\ sensitivity.collection_rate_drop =
               calculate_breakeven(
                   pricing,
                   [volume EXCEPT
                        !.collection_rate = LoweredCollectionRate(volume.collection_rate)],
                   cogs, opex)
        /\ sensitivity.wash_cost_increase =
               calculate_breakeven(
                   pricing, volume,
                   [cogs EXCEPT !.wash_cost = Mul(cogs.wash_cost, Frac(120, 100))], opex)
        /\ sensitivity.per_use_fee_increase =
               calculate_breakeven(
                   [pricing EXCEPT !.per_use_fee = Add(pricing.per_use_fee, Frac(50, 100))],
                   volume, cogs, opex)
        /\ sensitivity.orders_per_day_drop =
               calculate_breakeven(
                   pricing, [volume EXCEPT !.orders_per_day = Num(40)], cogs, opex)
        /\ \A rate \in CollectionRates :
               ~Lt(CollectionRateDrop([volume EXCEPT !.collection_rate = rate])
                       .collection_rate,
                   Frac(1, 2))

\* a base collection rate below 0.5 and five finite break-evens, no two scenarios
\* alike
C15_Witness ==
    /\ Returned(sensitivity)
    /\ Lt(volume.collection_rate, Frac(1, 2))
    /\ \A k \in DOMAIN sensitivity : IsFinite(sensitivity[k].breakeven_orders)
    /\ \A j, k \in DOMAIN sensitivity : j # k => sensitivity[j] # sensitivity[k]
    /\ volume.orders_per_day # Num(40)

StepSize == chart_data.orders_range[2] - chart_data.orders_range[1]

\* 1.5 * referenceOrders minus the last entry of orders_range
Shortfall ==
    Sub(Mul(year3_total_orders, Frac(3, 2)),
        Num(chart_data.orders_range[Len(chart_data.orders_range)]))

C19_ChartLines ==
    Returned(chart_data) =>
        \A be \in {calculate_breakeven(pricing, volume, cogs, opex)} :
            /\ Returned(be)
            /\ DOMAIN chart_data.revenue_line = DOMAIN chart_data.orders_range
            /\ DOMAIN chart_data.cost_line = DOMAIN chart_data.orders_range
            /\ \A i \in DOMAIN chart_data.orders_range :
                   /\ chart_data.revenue_line[i] =
                          Mul(Num(chart_data.orders_range[i]), be.revenue_per_order)
                   /\ chart_data.cost_line[i] =
                          Add(be.fixed_costs_annual,
                              Mul(Num(chart_data.orders_range[i]),
                                  be.variable_cost_per_order))
            /\ chart_data.breakeven_point = be.breakeven_orders

\* a chart with a positive step, positive coefficients and a finite marker, beside
\* the direct break-even call
C19_Witness ==
    /\ Returned(chart_data) /\ Returned(breakeven)
    /\ chart_data.orders_range[21] > 0
    /\ Gt(breakeven.revenue_per_order, Zero)
    /\ Gt(breakeven.variable_cost_per_order, Zero)
    /\ Gt(breakeven.fixed_costs_annual, Zero)
    /\ IsFinite(chart_data.breakeven_point)
    /\ Gt(chart_data.revenue_line[21], chart_data.cost_line[21])
    /\ Gt(chart_data.cost_line[1], chart_data.revenue_line[1])

\* the volume assumptions that differ from v in the restaurants field only
RestaurantsVariants(v) ==
    { [v EXCEPT !.restaurants = Mul(Num(k), v.restaurants)] : k \in {3, 7} }

SameTier(v, v2) ==
    TierOf(v.operating_days, v.restaurants) = TierOf(v2.operating_days, v2.restaurants)

\* the monthly and setup fees allocated to an order
AllocatedFeesPerOrder(p, v) ==
    LET T == Mul(Mul(v.restaurants, v.orders_per_day), v.operating_days)
    IN  IF Gt(v.orders_per_day, Zero) /\ Gt(v.operating_days, Zero) /\ Gt(T, Zero)
        THEN Add(Div(Mul(Mul(v.restaurants, p.monthly_fee),
                         Div(v.operating_days, Num(30))), T),
                 Div(Mul(v.new_restaurants, p.setup_fee), T))
        ELSE Zero

\* the aggregator revenue blended into an order
AggregatorRevenuePerOrder(p, v) ==
    LET T == Mul(Mul(v.restaurants, v.orders_per_day), v.operating_days)
        A == Mul(v.zomato_orders_per_day, v.zomato_operating_days)
    IN  IF Gt(v.zomato_orders_per_day, Zero) /\ Gt(v.zomato_operating_days, Zero)
        THEN Div(Mul(Mul(A, p.green_fee), p.revenue_share_pct), Add(T, A))
        ELSE Zero

\* breakeven_restaurants = breakeven_orders / (orders_per_day * operating_days) when
\* that product is positive, +infinity otherwise
BreakevenRestaurantsFormula ==
    breakeven.breakeven_restaurants =
        IF Gt(Mul(volume.orders_per_day, volume.operating_days), Zero)
        THEN Div(breakeven.breakeven_orders,
                 Mul(volume.orders_per_day, volume.operating_days))
        ELSE Inf

\* C20 as stated: breakeven_restaurants follows the formula, and a bundle that
\* differs only in restaurants, with the same depreciation tier and the same fees
\* allocated per order, has the same breakeven_restaurants.
C20_BreakevenRestaurantsAsStated ==
    Returned(breakeven) =>
        /\ BreakevenRestaurantsFormula
        /\ \A v2 \in RestaurantsVariants(volume) :
               ( /\ SameTier(volume, v2)
                 /\ AllocatedFeesPerOrder(pricing, v2) =
                        AllocatedFeesPerOrder(pricing, volume) )
               => calculate_breakeven(pricing, v2, cogs, opex).breakeven_restaurants =
                      breakeven.breakeven_restaurants

\* C20 (amended): breakeven_restaurants = breakeven_orders / (orders_per_day *
\* operating_days) when that product is positive and +infinity otherwise; a bundle
\* that differs only in restaurants (at least 1 in both) has the same
\* breakeven_restaurants if it has the same depreciation tier, the same fees
\* allocated per order and the same aggregator revenue per order.
C20_BreakevenRestaurants ==
    Returned(breakeven) =>
        /\ BreakevenRestaurantsFormula
        /\ \A v2 \in RestaurantsVariants(volume) :
               ( /\ volume.restaurants.n >= 1 /\ v2.restaurants.n >= 1
                 /\ SameTier(volume, v2)
                 /\ AllocatedFeesPerOrder(pricing, v2) =
                        AllocatedFeesPerOrder(pricing, volume)
                 /\ AggregatorRevenuePerOrder(pricing, v2) =
                        AggregatorRevenuePerOrder(pricing, volume) )
               => calculate_breakeven(pricing, v2, cogs, opex).breakeven_restaurants =
                      breakeven.breakeven_restaurants

\* several restaurants and a finite break-even that seven times the restaurants
\* leave as it is, while the months to break-even move
C20_Witness ==
    /\ Returned(breakeven) /\ IsFinite(breakeven.breakeven_restaurants)
    /\ Gt(volume.restaurants, Num(1))
    /\ Gt(pricing.monthly_fee, Zero)
    /\ \E v2 \in RestaurantsVariants(volume) :
           /\ SameTier(volume, v2)
           /\ AllocatedFeesPerOrder(pricing, v2) = AllocatedFeesPerOrder(pricing, volume)
           /\ AggregatorRevenuePerOrder(pricing, v2) =
                  AggregatorRevenuePerOrder(pricing, volume)
           /\ calculate_breakeven(pricing, v2, cogs, opex).breakeven_restaurants =
                  breakeven.breakeven_restaurants
           /\ calculate_breakeven(pricing, v2, cogs, opex).months_to_breakeven #
                  breakeven.months_to_breakeven

\* restaurants * orders_per_day * operating_days of the caller's volume
Year1TotalOrders ==
    Mul(Mul(volume.restaurants, volume.orders_per_day), volume.operating_days)

\* C21: for a valid bundle with container_lifespan > 0, months_to_breakeven =
\* (breakeven_orders / year1_total_orders) * 12, with year1_total_orders =
\* restaurants * orders_per_day * operating_days, when year1_total_orders > 0 and
\* contribution_margin_per_order > 0, and +infinity in every other case,
\* operating_days = 0 with a positive margin included.
C21_MonthsToBreakeven ==
    (ValidBundle /\ LifespanPositive /\ ~IsNone(breakeven)) =>
        /\ Returned(breakeven)
        /\ breakeven.months_to_breakeven =
               IF Gt(Year1TotalOrders, Zero)
                  /\ Gt(breakeven.contribution_margin_per_order, Zero)
               THEN Mul(Div(breakeven.breakeven_orders, Year1TotalOrders), Num(12))
               ELSE Inf

\* orders and a positive margin: a finite number of months
C21_Witness ==
    /\ ValidBundle /\ Returned(breakeven)
    /\ Gt(Year1TotalOrders, Zero)
    /\ Gt(breakeven.contribution_margin_per_order, Zero)
    /\ IsFinite(breakeven.months_to_breakeven)
    /\ Gt(breakeven.months_to_breakeven, Zero)
    /\ breakeven.months_to_breakeven # breakeven.breakeven_restaurants

\* num_hubs * (rent_per_hub + utilities_per_hub + workers_per_hub * worker_salary)
\* * operating_days/30
FacilityCostsOf(o, v) ==
    Mul(Mul(o.num_hubs,
            Add(Add(o.rent_per_hub, o.utilities_per_hub),
                Mul(o.workers_per_hub, o.worker_salary))),
        Div(v.operating_days, Num(30)))

\* the OpEx assumptions of o with another number of hubs
HubVariants(o) == { [o EXCEPT !.num_hubs = Num(h)] : h \in {0, 1, 3} }

\* the volume assumptions of v with other restaurants and orders per day
ScaleVariants(v) ==
    { [v EXCEPT !.restaurants = r, !.orders_per_day = q] :
          r \in {Num(1), Num(2000)}, q \in {Zero, Num(40)} }

\* C22: the OpEx breakdown of a returned income statement has sales_salaries =
\* num_sales_people * avg_salary and facility_costs = num_hubs * (rent_per_hub +
\* utilities_per_hub + workers_per_hub * worker_salary) * operating_days/30, with
\* technology, marketing and ga passed through unchanged; and it is the same for
\* every other restaurants, orders_per_day, pricing and COGS.
C22_OpexBreakdown ==
    Returned(income_statement) =>
        \A o \in {income_statement.opex} :
            /\ o.sales_salaries = Mul(opex.num_sales_people, opex.avg_salary)
            /\ o.facility_costs = FacilityCostsOf(opex, volume)
            /\ o.technology = opex.technology
            /\ o.marketing = opex.marketing
            /\ o.ga = opex.ga
            /\ \A o2 \in HubVariants(opex) :
                   calculate_opex(o2, volume).facility_costs = FacilityCostsOf(o2, volume)
            /\ \A v2 \in ScaleVariants(volume) : calculate_opex(opex, v2) = o
            /\ \A p2 \in PricingValues :
               \A c2 \in { c \in CogsValues : Gt(c.container_lifespan, Zero) } :
                   calculate_full_income_statement(p2, volume, c2, opex).opex = o

\* sales people, a hub with rent, utilities and workers, and months operated
C22_Witness ==
    /\ Returned(income_statement)
    /\ Gt(income_statement.opex.sales_salaries, Zero)
    /\ Gt(opex.rent_per_hub, Zero) /\ Gt(opex.utilities_per_hub, Zero)
    /\ Gt(Mul(opex.workers_per_hub, opex.worker_salary), Zero)
    /\ Gt(volume.operating_days, Num(30))
    /\ Gt(income_statement.opex.facility_costs,
          Add(Add(opex.rent_per_hub, opex.utilities_per_hub),
              Mul(opex.workers_per_hub, opex.worker_salary)))
    /\ Gt(income_statement.opex.technology, Zero)

PerOrderResults ==
    /\ ValidBundle /\ Returned(breakeven) /\ Returned(unit_economics)
    /\ Gt(income_statement.revenue.total_orders, Zero)

\* C24: for a valid bundle with total_orders > 0 and the aggregator channel
\* inactive (zomato_orders_per_day = 0 or zomato_operating_days = 0), the
\* revenue_per_order of the break-even result equals the revenue_per_order of the
\* unit economics, and times total_orders it is the income statement's
\* total_revenue; with an active channel that earns revenue the two differ.
C24_RevenuePerOrderAgrees ==
    PerOrderResults =>
        /\ (IsZero(volume.zomato_orders_per_day) \/ IsZero(volume.zomato_operating_days))
           => /\ breakeven.revenue_per_order = unit_economics.revenue_per_order
              /\ Mul(breakeven.revenue_per_order, income_statement.revenue.total_orders) =
                     income_statement.revenue.total_revenue
        /\ Gt(income_statement.revenue.aggregator_revenue, Zero)
           => breakeven.revenue_per_order # unit_economics.revenue_per_order

\* every restaurant stream earns and the aggregator channel has orders but no days
C24_Witness ==
    /\ PerOrderResults
    /\ Gt(volume.zomato_orders_per_day, Zero) /\ IsZero(volume.zomato_operating_days)
    /\ \A x \in {income_statement.revenue.usage_revenue,
                   income_statement.revenue.subscription_revenue,
                   income_statement.revenue.setup_revenue,
                   income_statement.revenue.shrinkage_revenue} : Gt(x, Zero)
    /\ breakeven.revenue_per_order = unit_economics.revenue_per_order
    /\ Gt(breakeven.revenue_per_order, pricing.per_use_fee)

\* the scenario's break-even is no worse than the base one: the same fixed costs
\* and revenue per order, no higher variable cost, no higher break-even orders
NoWorseThan(scenario, base) ==
    /\ scenario.fixed_costs_annual = base.fixed_costs_annual
    /\ scenario.revenue_per_order = base.revenue_per_order
    /\ ~Gt(scenario.variable_cost_per_order, base.variable_cost_per_order)
    /\ ~Gt(scenario.breakeven_orders, base.breakeven_orders)

\* base collection rates of at least 0.5
HighCollectionRates == {Frac(1, 2), Frac(3, 5), Frac(9, 10), Num(1)}

\* C25: for a valid bundle whose base collection_rate is at least 0.5, the
\* collection_rate_drop scenario has the fixed_costs_annual and revenue_per_order
\* of base, a variable_cost_per_order no higher than the base one and a
\* breakeven_orders no higher than the base one, +infinity being the largest value.
C25_CollectionRateDropNoWorse ==
    (ValidBundle /\ Returned(sensitivity)) =>
        /\ ~Lt(volume.collection_rate, Frac(1, 2)) =>
               NoWorseThan(sensitivity.collection_rate_drop, sensitivity.base)
        /\ \A rate \in HighCollectionRates :
           \A v2 \in {[volume EXCEPT !.collection_rate = rate]} :
               NoWorseThan(calculate_breakeven(pricing, CollectionRateDrop(v2), cogs, opex),
                           calculate_breakeven(pricing, v2, cogs, opex))

\* a washing cost and a finite base break-even that the lower rate improves
C25_Witness ==
    /\ ValidBundle /\ Returned(sensitivity)
    /\ ~Lt(volume.collection_rate, Frac(1, 2))
    /\ Gt(cogs.wash_cost, Zero)
    /\ IsFinite(sensitivity.base.breakeven_orders)
    /\ Lt(sensitivity.collection_rate_drop.variable_cost_per_order,
          sensitivity.base.variable_cost_per_order)
    /\ Lt(sensitivity.collection_rate_drop.breakeven_orders,
          sensitivity.base.breakeven_orders)

\* the smallest depreciation magnitude
SmallestFixedCosts == Neg(StartupTier.depreciation)

\* C26: for a valid bundle, fixed_costs_annual is at least 2,500,000, the smallest
\* depreciation magnitude, in the break-even result and in every sensitivity
\* scenario; a finite breakeven_orders is strictly positive; and the chart's cost
\* line is strictly above its revenue line at orders = 0.
C26_FixedCostsFloor ==
    ValidBundle =>
        /\ Returned(breakeven) =>
               /\ ~Lt(breakeven.fixed_costs_annual, SmallestFixedCosts)
               /\ IsFinite(breakeven.breakeven_orders) =>
                      Gt(breakeven.breakeven_orders, Zero)
        /\ Returned(sensitivity) =>
               \A k \in DOMAIN sensitivity :
                   /\ ~Lt(sensitivity[k].fixed_costs_annual, SmallestFixedCosts)
                   /\ IsFinite(sensitivity[k].breakeven_orders) =>
                          Gt(sensitivity[k].breakeven_orders, Zero)
        /\ Returned(chart_data) =>
               /\ chart_data.orders_range[1] = 0
               /\ IsZero(chart_data.revenue_line[1])
               /\ ~Lt(chart_data.cost_line[1], SmallestFixedCosts)
               /\ Gt(chart_data.cost_line[1], chart_data.revenue_line[1])

\* no OpEx at all in a partial year: the fixed costs are the floor itself, with a
\* finite break-even and a chart
C26_Witness ==
    /\ ValidBundle /\ Returned(breakeven) /\ Returned(chart_data)
    /\ IsZero(calculate_opex(opex, volume).total_opex)
    /\ breakeven.fixed_costs_annual = SmallestFixedCosts
    /\ IsFinite(breakeven.breakeven_orders)
    /\ Gt(breakeven.breakeven_orders, Zero)
    /\ chart_data.cost_line[1] = SmallestFixedCosts

\* the sampled order counts of the chart, as numbers
SampledOrders == [i \in DOMAIN chart_data.orders_range |-> Num(chart_data.orders_range[i])]

\* C27: in the chart of a valid bundle, at every sampled point the cost line is
\* above the revenue line if the point is below the marker breakeven_point, below
\* it if the point is above the marker, and the two are equal exactly at a point
\* that is the marker; with a marker of +infinity the cost line is strictly above
\* the revenue line at all 21 points.
C27_LinesCrossAtMarker ==
    (ValidBundle /\ Returned(chart_data)) =>
        /\ Len(chart_data.orders_range) = 21
        /\ \A i \in DOMAIN chart_data.orders_range :
               /\ Lt(SampledOrders[i], chart_data.breakeven_point) =>
                      Gt(chart_data.cost_line[i], chart_data.revenue_line[i])
               /\ Gt(SampledOrders[i], chart_data.breakeven_point) =>
                      Lt(chart_data.cost_line[i], chart_data.revenue_line[i])
               /\ (chart_data.cost_line[i] = chart_data.revenue_line[i]) <=>
                      (SampledOrders[i] = chart_data.breakeven_point)
               /\ chart_data.breakeven_point = Inf =>
                      Gt(chart_data.cost_line[i], chart_data.revenue_line[i])

\* a finite marker inside the sampled range: points on both sides of it
C27_Witness ==
    /\ ValidBundle /\ Returned(chart_data)
    /\ IsFinite(chart_data.breakeven_point)
    /\ \E i, j \in DOMAIN chart_data.orders_range :
           /\ i > 1
           /\ Lt(SampledOrders[i], chart_data.breakeven_point)
           /\ Gt(SampledOrders[j], chart_data.breakeven_point)
           /\ Gt(chart_data.cost_line[i], chart_data.revenue_line[i])
           /\ Lt(chart_data.cost_line[j], chart_data.revenue_line[j])

====
